---- MODULE Spec2Model ----
(***************************************************************************)
(* Model of the two command-line diagnostics chroma_version_analysis.py    *)
(* and chroma_diagnostic.py.  Text (configuration blobs, serialized JSON,  *)
(* the migration script) is a sequence of symbols: a symbol is either a    *)
(* single character that the code or the consuming parsers treat specially *)
(* (braces, quotes, backslash, newline, ...) or a whole word that no       *)
(* operation of the program ever splits ("hnsw", "UPDATE", ...).           *)
(***************************************************************************)
EXTENDS Naturals, Sequences, FiniteSets, TLC

(* ---------------------------------------------------------------------- *)
(* Symbols                                                                 *)
(* ---------------------------------------------------------------------- *)
DQ == "\""
SQ == "'"
BS == "\\"
NL == "\n"
SP == " "

IsWs(c) == c = SP \/ c = NL

(* ---------------------------------------------------------------------- *)
(* Python values produced by json.loads.  kind is one of "dict", "list",  *)
(* "str", "num", "null"; val holds the <<key, value>> items of a dict (in  *)
(* insertion order), the elements of a list, the characters of a str.      *)
(* ---------------------------------------------------------------------- *)
PyDict(items) == [kind |-> "dict", val |-> items]
PyList(elems) == [kind |-> "list", val |-> elems]
PyStr(chars) == [kind |-> "str", val |-> chars]
PyNum == [kind |-> "num", val |-> <<"0">>]
PyNone == [kind |-> "null", val |-> <<>>]

HasKey(d, k) == \E i \in 1..Len(d.val) : d.val[i][1] = k

(* d[k] = v on a Python dict: an existing key keeps its position, a new   *)
(* key goes last.                                                          *)
DictSet(d, k, v) ==
  IF HasKey(d, k)
  THEN PyDict([i \in 1..Len(d.val) |->
                 IF d.val[i][1] = k THEN <<k, v>> ELSE d.val[i]])
  ELSE PyDict(Append(d.val, <<k, v>>))

(* ---------------------------------------------------------------------- *)
(* json.dumps with the default separators (", " and ": ")                  *)
(* ---------------------------------------------------------------------- *)
RECURSIVE EscapeStr(_)
EscapeStr(s) ==
  IF s = <<>> THEN <<>>
  ELSE LET c == Head(s)
           e == IF c = DQ THEN <<BS, DQ>>
                ELSE IF c = BS THEN <<BS, BS>>
                ELSE IF c = NL THEN <<BS, "n">>
                ELSE <<c>>
       IN e \o EscapeStr(Tail(s))

DumpStr(s) == <<DQ>> \o EscapeStr(s) \o <<DQ>>

RECURSIVE Dumps(_)
RECURSIVE DumpItems(_)
RECURSIVE DumpElems(_)
DumpItems(items) ==
  IF items = <<>> THEN <<>>
  ELSE DumpStr(items[1][1]) \o <<":", SP>> \o Dumps(items[1][2])
       \o (IF Len(items) > 1 THEN <<",", SP>> \o DumpItems(Tail(items)) ELSE <<>>)

DumpElems(elems) ==
  IF elems = <<>> THEN <<>>
  ELSE Dumps(elems[1])
       \o (IF Len(elems) > 1 THEN <<",", SP>> \o DumpElems(Tail(elems)) ELSE <<>>)

Dumps(v) ==
  CASE v.kind = "dict" -> <<"{">> \o DumpItems(v.val) \o <<"}">>
    [] v.kind = "list" -> <<"[">> \o DumpElems(v.val) \o <<"]">>
    [] v.kind = "str" -> DumpStr(v.val)
    [] v.kind = "num" -> v.val
    [] OTHER -> <<"null">>

(* ---------------------------------------------------------------------- *)
(* json.loads.  A parse result is [ok, val, pos]: pos is the index of the  *)
(* first symbol after the parsed value.  ok = FALSE is JSONDecodeError.    *)
(* ---------------------------------------------------------------------- *)
Fail == [ok |-> FALSE, val |-> PyNone, pos |-> 0]
Got(v, p) == [ok |-> TRUE, val |-> v, pos |-> p]

RECURSIVE SkipWs(_, _)
SkipWs(s, i) == IF i <= Len(s) /\ IsWs(s[i]) THEN SkipWs(s, i + 1) ELSE i

(* py_scanstring in strict mode; i is the index after the opening quote.   *)
RECURSIVE ScanString(_, _, _)
ScanString(s, i, acc) ==
  IF i > Len(s) THEN Fail
  ELSE IF s[i] = DQ THEN Got(PyStr(acc), i + 1)
  ELSE IF s[i] = NL THEN Fail
  ELSE IF s[i] = BS
       THEN IF i + 1 > Len(s) THEN Fail
            ELSE IF s[i + 1] = DQ THEN ScanString(s, i + 2, Append(acc, DQ))
            ELSE IF s[i + 1] = BS THEN ScanString(s, i + 2, Append(acc, BS))
            ELSE IF s[i + 1] = "n" THEN ScanString(s, i + 2, Append(acc, NL))
            ELSE Fail
  ELSE ScanString(s, i + 1, Append(acc, s[i]))

RECURSIVE ParseValue(_, _)
RECURSIVE ParseMembers(_, _, _)
RECURSIVE ParseElems(_, _, _)

(* i is the index of the opening quote expected for the next key.          *)
ParseMembers(s, i, d) ==
  IF i > Len(s) \/ s[i] # DQ THEN Fail
  ELSE LET key == ScanString(s, i + 1, <<>>)
       IN IF ~key.ok THEN Fail
          ELSE LET c == SkipWs(s, key.pos)
               IN IF c > Len(s) \/ s[c] # ":" THEN Fail
                  ELSE LET v == ParseValue(s, SkipWs(s, c + 1))
                       IN IF ~v.ok THEN Fail
                          ELSE LET e == SkipWs(s, v.pos)
                                   d2 == DictSet(d, key.val.val, v.val)
                               IN IF e > Len(s) THEN Fail
                                  ELSE IF s[e] = "}" THEN Got(d2, e + 1)
                                  ELSE IF s[e] = ","
                                       THEN ParseMembers(s, SkipWs(s, e + 1), d2)
                                  ELSE Fail

ParseElems(s, i, acc) ==
  LET v == ParseValue(s, i)
  IN IF ~v.ok THEN Fail
     ELSE LET e == SkipWs(s, v.pos)
              acc2 == Append(acc, v.val)
          IN IF e > Len(s) THEN Fail
             ELSE IF s[e] = "]" THEN Got(PyList(acc2), e + 1)
             ELSE IF s[e] = "," THEN ParseElems(s, SkipWs(s, e + 1), acc2)
             ELSE Fail

ParseValue(s, i) ==
  IF i > Len(s) THEN Fail
  ELSE CASE s[i] = DQ -> ScanString(s, i + 1, <<>>)
         [] s[i] = "{" ->
              LET j == SkipWs(s, i + 1)
              IN IF j <= Len(s) /\ s[j] = "}" THEN Got(PyDict(<<>>), j + 1)
                 ELSE ParseMembers(s, j, PyDict(<<>>))
         [] s[i] = "[" ->
              LET j == SkipWs(s, i + 1)
              IN IF j <= Len(s) /\ s[j] = "]" THEN Got(PyList(<<>>), j + 1)
                 ELSE ParseElems(s, j, <<>>)
         [] s[i] = "0" -> Got(PyNum, i + 1)
         [] s[i] = "null" -> Got(PyNone, i + 1)
         [] OTHER -> Fail

(* JSONDecoder.decode: leading whitespace, one value, trailing whitespace, *)
(* then the end of the text ("Extra data" otherwise).                      *)
Loads(s) ==
  LET v == ParseValue(s, SkipWs(s, 1))
  IN IF ~v.ok THEN Fail
     ELSE IF SkipWs(s, v.pos) # Len(s) + 1 THEN Fail
     ELSE v

(* ---------------------------------------------------------------------- *)
(* Configurations                                                          *)
(* ---------------------------------------------------------------------- *)
KeyType == <<"_type">>
KeyHnsw == <<"hnsw">>
KeyEmbedding == <<"embedding_function">>
Internal == PyStr(<<"CollectionConfigurationInternal">>)

(* Python's None in the third slot of a problematic_configs tuple.         *)
NoConfig == [kind |-> "None", val |-> <<>>]

(* generate_migration_script: default_config                               *)
default_config ==
  PyDict(<< <<KeyType, Internal>>,
            <<KeyHnsw, PyDict(<<>>)>>,
            <<KeyEmbedding, PyDict(<<>>)>> >>)

(* Variant of QueuedConfig: the inferred configuration replaces the stored  *)
(* one instead of extending it.                                            *)
QueuedConfig_Replaces(config) ==
  IF HasKey(config, KeyHnsw) THEN default_config ELSE config

(* analyze_configuration_error, the branch that found no '_type': the dict *)
(* is appended to problematic_configs and then, when it has an 'hnsw' key, *)
(* gets '_type' set.  The tuple holds the same dict object, so the value   *)
(* seen later through problematic_configs is the dict after the update.    *)
QueuedConfig(config) ==
  IF HasKey(config, KeyHnsw) THEN DictSet(config, KeyType, Internal) ELSE config

(* Variant of CorrectedConfig: the default carries the discriminator only.  *)
CorrectedConfig_BareDefault(config) ==
  IF config.kind # "None"
  THEN IF ~HasKey(config, KeyType) THEN DictSet(config, KeyType, Internal) ELSE config
  ELSE PyDict(<< <<KeyType, Internal>> >>)

(* generate_migration_script: the configuration that is serialized for one *)
(* problematic_configs tuple.                                              *)
CorrectedConfig(config) ==
  IF config.kind # "None"
  THEN IF ~HasKey(config, KeyType) THEN DictSet(config, KeyType, Internal) ELSE config
  ELSE default_config

updated_json(config) == Dumps(CorrectedConfig(config))

(* ---------------------------------------------------------------------- *)
(* generate_migration_script: the text of the script                       *)
(* ---------------------------------------------------------------------- *)
ScriptHeader(db_path) ==
  <<"--", SP, "ChromaDB Configuration Migration Script", NL,
    "--", SP, "Generated for database:", SP>> \o db_path \o <<NL,
    "--", SP, "Fixes missing", SP, SQ, "_type", SQ, SP,
    "fields in collection configurations", NL,
    NL,
    "BEGIN", SP, "TRANSACTION", ";", NL,
    NL>>

UpdateStatement(entry) ==
  <<"--", SP>>
  \o (IF entry.config.kind # "None"
      THEN <<"Fix collection:">>
      ELSE <<"Fix collection with default config:">>)
  \o <<SP>> \o entry.name \o <<NL,
    "UPDATE", SP, "collections", SP, NL,
    "SET", SP, "configuration_json_str", SP, "=", SP, SQ>>
  \o updated_json(entry.config) \o <<SQ, NL,
    "WHERE", SP, "id", SP, "=", SP, SQ>>
  \o entry.collection_id \o <<SQ, ";", NL,
    NL>>

ScriptFooter ==
  <<NL,
    "COMMIT", ";", NL,
    NL,
    "--", SP, "Verify the changes", NL,
    "SELECT", SP, "id", ",", SP, "name", ",", SP, "configuration_json_str", SP,
    "FROM", SP, "collections", ";", NL>>

(* The (collection_id, updated_json) pair of each turn of the loop         *)
Updates(entries) ==
  [k \in 1..Len(entries) |->
     [collection_id |-> entries[k].collection_id,
      updated_json |-> updated_json(entries[k].config)]]

RECURSIVE UpdateStatements(_)
UpdateStatements(entries) ==
  IF entries = <<>> THEN <<>>
  ELSE UpdateStatement(Head(entries)) \o UpdateStatements(Tail(entries))

migration_script(db_path, entries) ==
  ScriptHeader(db_path) \o UpdateStatements(entries) \o ScriptFooter

(* ---------------------------------------------------------------------- *)
(* How a SQL shell reads the script: "--" starts a comment that runs to    *)
(* the end of the line, a single quote starts a string literal and a       *)
(* double quote a quoted identifier, each ended by the same quote (a       *)
(* doubled quote inside stands for one quote).  Tokens are [kind, text]    *)
(* with kind "word", "lit" (string literal), "ident" (quoted identifier)   *)
(* or "open" (a literal or identifier the script never closes).            *)
(* ---------------------------------------------------------------------- *)
RECURSIVE ScanQuoted(_, _, _, _)
ScanQuoted(s, i, q, acc) ==
  IF i > Len(s) THEN [closed |-> FALSE, text |-> acc, pos |-> i]
  ELSE IF s[i] = q
       THEN IF i + 1 <= Len(s) /\ s[i + 1] = q
            THEN ScanQuoted(s, i + 2, q, Append(acc, q))
            ELSE [closed |-> TRUE, text |-> acc, pos |-> i + 1]
  ELSE ScanQuoted(s, i + 1, q, Append(acc, s[i]))

RECURSIVE SkipComment(_, _)
SkipComment(s, i) ==
  IF i > Len(s) THEN i
  ELSE IF s[i] = NL THEN i + 1
  ELSE SkipComment(s, i + 1)

RECURSIVE SqlLex(_, _, _)
SqlLex(s, i, acc) ==
  IF i > Len(s) THEN acc
  ELSE IF IsWs(s[i]) THEN SqlLex(s, i + 1, acc)
  ELSE IF s[i] = "--" THEN SqlLex(s, SkipComment(s, i + 1), acc)
  ELSE IF s[i] = SQ \/ s[i] = DQ
       THEN LET r == ScanQuoted(s, i + 1, s[i], <<>>)
                k == IF ~r.closed THEN "open"
                     ELSE IF s[i] = SQ THEN "lit" ELSE "ident"
            IN SqlLex(s, r.pos, Append(acc, [kind |-> k, text |-> r.text]))
  ELSE SqlLex(s, i + 1, Append(acc, [kind |-> "word", text |-> <<s[i]>>]))

SqlTokens(s) == SqlLex(s, 1, <<>>)

(* ---------------------------------------------------------------------- *)
(* Inputs: the rows of the collections table and the database directory    *)
(* ---------------------------------------------------------------------- *)
MaxRows == 2

Text(isNull, text) == [isNull |-> isNull, text |-> text]

BlobValid ==
  Dumps(PyDict(<< <<KeyType, Internal>>, <<KeyHnsw, PyDict(<<>>)>> >>))
BlobHnsw ==
  Dumps(PyDict(<< <<KeyHnsw, PyDict(<<>>)>>, <<(<<"k">>), PyStr(<<"a">>)>> >>))
BlobHnswQuote ==
  <<"{", DQ, "hnsw", DQ, ":", "{", "}", ",", DQ, "k", DQ, ":", DQ, SQ, DQ, "}">>
BlobEscapes ==
  Dumps(PyDict(<< <<(<<"k">>), PyStr(<<DQ, NL, BS>>)>>, <<KeyHnsw, PyDict(<<>>)>> >>))
BlobEmptyDict == <<"{", "}">>
BlobList == <<"[", "]">>
BlobNull == <<"null">>
BlobString == <<DQ, "_type", DQ>>
BlobTruncated == <<"{", DQ, "hnsw", DQ, ":", SP>>
BlobQuoteJunk == <<SQ, ";", SP>>
BlobTrailingComma == <<"{", DQ, "hnsw", DQ, ":", "{", "}", ",", "}">>

Row(id, name, blob) == [id |-> id, name |-> name, blob |-> blob]

Rows ==
  { Row(<<"abc">>, <<"docs">>, Text(TRUE, <<>>)),
    Row(<<"abc">>, <<"docs">>, Text(FALSE, <<>>)),
    Row(<<"abc">>, <<"docs">>, Text(FALSE, BlobValid)),
    Row(<<"abc">>, <<"docs">>, Text(FALSE, BlobHnsw)),
    Row(<<"abc">>, <<"docs">>, Text(FALSE, BlobHnswQuote)),
    Row(<<"abc">>, <<"docs">>, Text(FALSE, BlobEscapes)),
    Row(<<"abc">>, <<"docs">>, Text(FALSE, BlobEmptyDict)),
    Row(<<"abc">>, <<"docs">>, Text(FALSE, BlobList)),
    Row(<<"abc">>, <<"docs">>, Text(FALSE, BlobNull)),
    Row(<<"abc">>, <<"docs">>, Text(FALSE, BlobString)),
    Row(<<"abc">>, <<"docs">>, Text(FALSE, BlobTruncated)),
    Row(<<"abc">>, <<"docs">>, Text(FALSE, BlobTrailingComma)),
    Row(<<"x", SQ, "y">>, <<"docs">>, Text(FALSE, BlobQuoteJunk)),
    Row(<<"def">>, <<"d", NL, "s">>, Text(FALSE, BlobHnsw)) }

RowSeqs == UNION { [1..n -> Rows] : n \in 0..MaxRows }

NoName == <<>>
CollectionNames == {NoName, <<"docs">>}

(* SELECT id, name, configuration_json_str FROM collections                *)
(* [WHERE name = ?]                                                        *)
Selected(rs, collection_name) ==
  collection_name = NoName \/ \A i \in 1..Len(rs) : rs[i].name = collection_name

FileNames ==
  {"chroma.sqlite3", "chroma.db", "database.db", "index.sqlite3", "old.sqlite3",
   "chroma_data.sqlite", "notes.txt"}

EndsWithSqlite3(f) == f \in {"chroma.sqlite3", "index.sqlite3", "old.sqlite3"}

NoFile == "none"

(* Variant of FindChromaDb: the fallback uses the looser test of the        *)
(* "Potential SQLite files" listing.                                       *)
FindChromaDb_Loose(fs) ==
  IF "chroma.sqlite3" \in fs THEN {"chroma.sqlite3"}
  ELSE IF "chroma.db" \in fs THEN {"chroma.db"}
  ELSE IF "database.db" \in fs THEN {"database.db"}
  ELSE IF \E f \in fs : EndsWithSqlite3(f) \/ f = "chroma_data.sqlite"
       THEN {f \in fs : EndsWithSqlite3(f) \/ f = "chroma_data.sqlite"}
  ELSE {NoFile}

(* analyze_configuration_error: the first existing candidate, in order     *)
FindSqlite(files) ==
  IF "chroma.sqlite3" \in files THEN "chroma.sqlite3"
  ELSE IF "chroma.db" \in files THEN "chroma.db"
  ELSE NoFile

(* analyze_chroma_database: the candidates in order, then any *.sqlite3    *)
(* file, in the order os.listdir happens to give.                          *)
FindChromaDb(files) ==
  IF "chroma.sqlite3" \in files THEN {"chroma.sqlite3"}
  ELSE IF "chroma.db" \in files THEN {"chroma.db"}
  ELSE IF "database.db" \in files THEN {"database.db"}
  ELSE IF \E f \in files : EndsWithSqlite3(f)
       THEN {f \in files : EndsWithSqlite3(f)}
  ELSE {NoFile}

(* ---------------------------------------------------------------------- *)
(* The client library: what one attempt to open the client and list the    *)
(* collections can do.                                                     *)
(* ---------------------------------------------------------------------- *)
Outcomes == {"ok", "open_fail", "list_fail"}

(* Variant of AttemptSucceeds: only the opening of the client is guarded.   *)
AttemptSucceeds_OpenOnly(outcome) == outcome # "open_fail"

(* client = client_func(); collections = client.list_collections() both    *)
(* returned without raising.                                               *)
AttemptSucceeds(outcome) == outcome = "ok"

NumApproaches == 2
NumConfigs == 2

(* ---------------------------------------------------------------------- *)
(* analyze_configuration_error: one row                                    *)
(* ---------------------------------------------------------------------- *)
(* if config_json_str:                                                     *)
Truthy(blob) == ~blob.isNull /\ blob.text # <<>>

(* Variant of MissingType: every parsed configuration is taken as lacking   *)
(* the discriminator.                                                      *)
MissingType_Always(config) == TRUE

(* if '_type' not in config:                                               *)
MissingType(config) == ~HasKey(config, KeyType)

Classify(blob) ==
  IF ~Truthy(blob) THEN "no_config"
  ELSE LET p == Loads(blob.text)
       IN IF ~p.ok THEN "invalid_json"
          ELSE IF p.val.kind # "dict" THEN "raises"
          ELSE IF MissingType(p.val) THEN "missing_type"
          ELSE "valid"

Entry(id, name, config) == [collection_id |-> id, name |-> name, config |-> config]

(* The tuple the row adds to problematic_configs (for a row that adds one) *)
RowEntry(row) ==
  IF Classify(row.blob) = "missing_type"
  THEN Entry(row.id, row.name, QueuedConfig(Loads(row.blob.text).val))
  ELSE Entry(row.id, row.name, NoConfig)

(* bool(x) of what analyze_configuration_error returned                    *)
ReturnedTruthy(r) == r.kind = "list" /\ r.list # <<>>

(* Variant of MainAnalyzes: the analysis runs whatever the tester returned. *)
MainAnalyzes_Always(ok) == TRUE

(* main of chroma_version_analysis: if not success:                        *)
MainAnalyzes(ok) == ~ok

VARIABLES
  entry,                \* which program runs
  argv,                 \* whether the path argument was given
  db_exists,            \* os.path.exists(db_path)
  collection_name,      \* the optional second argument (NoName: not given)
  backup_exists,        \* os.path.exists(db_path + "_backup")
  pc,                   \* position of the run
  log,                  \* what the run has reported and done, in order
  attempts,             \* outcome of each client attempt of the tester loop
  tester,               \* what the tester loop returned: "unset", "True", "False"
  success,              \* the boolean main holds: "unset", "True", "False"
  files,                \* os.listdir(db_path) as seen by the diagnostic
  sqlite_path,          \* the storage file chosen
  rows,                 \* cursor.fetchall()
  idx,                  \* rows handled by the loop of analyze_configuration_error
  problematic_configs,  \* the local list of analyze_configuration_error
  queued,               \* for each tuple of problematic_configs, its row index
  returned,             \* what analyze_configuration_error returned to main
  emitted,              \* (collection_id, updated_json) of each UPDATE generated
  script_file,          \* content of chroma_migration.sql
  writes,               \* times chroma_migration.sql was written
  uncaught              \* an exception left main

vars == <<entry, argv, db_exists, collection_name, backup_exists, pc, log, attempts,
          tester, success, files, sqlite_path, rows, idx, problematic_configs, queued,
          returned, emitted, script_file, writes, uncaught>>

inputs == <<entry, argv, db_exists, collection_name>>
analysis == <<rows, idx, problematic_configs, queued, returned>>
output == <<emitted, script_file, writes>>

db_path == <<"db_path">>

Ev(tag, n) == <<tag, n>>
NotReturned == [kind |-> "unset", list |-> <<>>]

Init ==
  /\ entry \in {"version_analysis", "diagnostic"}
  /\ argv \in BOOLEAN
  /\ db_exists \in BOOLEAN
  /\ collection_name \in (IF entry = "version_analysis" THEN CollectionNames ELSE {NoName})
  /\ backup_exists \in (IF entry = "diagnostic" THEN BOOLEAN ELSE {FALSE})
  /\ pc = "main"
  /\ log = <<>>
  /\ attempts = <<>>
  /\ tester = "unset"
  /\ success = "unset"
  /\ files = {}
  /\ sqlite_path = NoFile
  /\ rows = <<>>
  /\ idx = 0
  /\ problematic_configs = <<>>
  /\ queued = <<>>
  /\ returned = NotReturned
  /\ emitted = <<>>
  /\ script_file = <<>>
  /\ writes = 0
  /\ uncaught = FALSE

(* ---------------------------------------------------------------------- *)
(* chroma_version_analysis.py                                              *)
(* ---------------------------------------------------------------------- *)
(* main, up to the call of test_chromadb_connection_with_fixes             *)
VA_Main ==
  /\ entry = "version_analysis" /\ pc = "main"
  /\ IF ~argv
     THEN /\ log' = Append(log, Ev("usage", 0))
          /\ pc' = "exit"
     ELSE IF ~db_exists
     THEN /\ log' = Append(log, Ev("path_not_found", 0))
          /\ pc' = "exit"
     ELSE /\ log' = log
          /\ pc' = "va_test"
  /\ UNCHANGED <<inputs, backup_exists, attempts, tester, success, files, sqlite_path,
                 analysis, output, uncaught>>

(* test_chromadb_connection_with_fixes: one turn of the loop, and the      *)
(* return False that follows the last one                                  *)
VA_TryApproach ==
  /\ pc = "va_test" /\ Len(attempts) < NumApproaches
  /\ \E outcome \in Outcomes :
       LET i == Len(attempts) + 1
       IN /\ attempts' = Append(attempts, outcome)
          /\ IF AttemptSucceeds(outcome)
             THEN /\ log' = Append(log, Ev("approach_ok", i))
                  /\ tester' = "True"
                  /\ success' = "True"
                  /\ pc' = "va_tested"
             ELSE /\ log' = Append(log, Ev("approach_failed", i))
                  /\ IF i = NumApproaches
                     THEN tester' = "False" /\ success' = "False" /\ pc' = "va_tested"
                     ELSE tester' = tester /\ success' = success /\ pc' = pc
  /\ UNCHANGED <<inputs, backup_exists, files, sqlite_path, analysis, output, uncaught>>

(* main: if not success, and the search for the storage file that opens    *)
(* analyze_configuration_error                                             *)
VA_FindSqlite ==
  /\ pc = "va_tested"
  /\ IF ~MainAnalyzes(success = "True")
     THEN /\ pc' = "exit"
          /\ UNCHANGED <<log, sqlite_path, returned>>
     ELSE \E fs \in SUBSET FileNames :
            /\ sqlite_path' = FindSqlite(fs)
            /\ IF FindSqlite(fs) = NoFile
               THEN /\ log' = Append(log, Ev("no_sqlite_file", 0))
                    /\ returned' = [kind |-> "False", list |-> <<>>]
                    /\ pc' = "va_analyzed"
               ELSE /\ log' = log
                    /\ returned' = returned
                    /\ pc' = "va_query"
  /\ UNCHANGED <<inputs, backup_exists, attempts, tester, success, files, rows, idx,
                 problematic_configs, queued, output, uncaught>>

(* analyze_configuration_error: connect, SELECT, fetchall                  *)
VA_Query ==
  /\ pc = "va_query"
  /\ \/ /\ log' = Append(log, Ev("read_error", 0))
        /\ returned' = [kind |-> "None", list |-> <<>>]
        /\ pc' = "va_analyzed"
        /\ rows' = rows
     \/ \E rs \in RowSeqs :
          /\ Selected(rs, collection_name)
          /\ rows' = rs
          /\ log' = log
          /\ returned' = returned
          /\ pc' = "va_rows"
  /\ UNCHANGED <<inputs, backup_exists, attempts, tester, success, files, sqlite_path, idx,
                 problematic_configs, queued, output, uncaught>>

(* analyze_configuration_error: the body of the loop for one row; an       *)
(* exception other than JSONDecodeError reaches the except of the function *)
(* (logged as read_error with the number of the row; read_error 0 is a     *)
(* failure of the connection or the query)                                 *)
VA_Row ==
  /\ pc = "va_rows" /\ idx < Len(rows)
  /\ LET row == rows[idx + 1]
         c == Classify(row.blob)
     IN IF c = "raises"
        THEN /\ log' = Append(log, Ev("read_error", idx + 1))
             /\ returned' = [kind |-> "None", list |-> <<>>]
             /\ pc' = "va_analyzed"
             /\ UNCHANGED <<idx, problematic_configs, queued>>
        ELSE /\ log' = Append(log, Ev(c, idx + 1))
             /\ idx' = idx + 1
             /\ IF c = "valid"
                THEN UNCHANGED <<problematic_configs, queued>>
                ELSE /\ problematic_configs' = Append(problematic_configs, RowEntry(row))
                     /\ queued' = Append(queued, idx + 1)
             /\ UNCHANGED <<returned, pc>>
  /\ UNCHANGED <<inputs, backup_exists, attempts, tester, success, files, sqlite_path, rows,
                 output, uncaught>>

(* analyze_configuration_error: conn.close(); return problematic_configs   *)
VA_Return ==
  /\ pc = "va_rows" /\ idx = Len(rows)
  /\ returned' = [kind |-> "list", list |-> problematic_configs]
  /\ pc' = "va_analyzed"
  /\ UNCHANGED <<inputs, backup_exists, log, attempts, tester, success, files,
                 sqlite_path, rows, idx, problematic_configs, queued, output, uncaught>>

(* main: if problematic_configs: generate_migration_script(...), whose     *)
(* open(script_path, 'w') can fail; then the recommendations               *)
VA_Generate ==
  /\ pc = "va_analyzed"
  /\ IF ReturnedTruthy(returned)
     THEN \/ /\ emitted' = Updates(returned.list)
             /\ script_file' = migration_script(db_path, returned.list)
             /\ writes' = writes + 1
             /\ log' = log \o <<Ev("script_written", 0), Ev("recommendations", 0)>>
             /\ pc' = "exit"
             /\ uncaught' = uncaught
          \/ /\ uncaught' = TRUE
             /\ pc' = "crashed"
             /\ emitted' = Updates(returned.list)
             /\ UNCHANGED <<script_file, writes, log>>
     ELSE /\ log' = Append(log, Ev("recommendations", 0))
          /\ pc' = "exit"
          /\ UNCHANGED <<emitted, script_file, writes, uncaught>>
  /\ UNCHANGED <<inputs, backup_exists, attempts, tester, success, files, sqlite_path, analysis>>

(* ---------------------------------------------------------------------- *)
(* chroma_diagnostic.py                                                    *)
(* ---------------------------------------------------------------------- *)
(* main up to the call of analyze_chroma_database, and its path check      *)
DG_Main ==
  /\ entry = "diagnostic" /\ pc = "main"
  /\ IF ~argv
     THEN /\ log' = Append(log, Ev("usage", 0))
          /\ pc' = "exit"
          /\ success' = success
     ELSE IF ~db_exists
     THEN /\ log' = Append(log, Ev("path_not_found", 0))
          /\ success' = "False"
          /\ pc' = "dg_analyzed"
     ELSE /\ log' = log
          /\ success' = success
          /\ pc' = "dg_list"
  /\ UNCHANGED <<inputs, backup_exists, attempts, tester, files, sqlite_path, analysis,
                 output, uncaught>>

(* analyze_chroma_database: the listing of the directory                   *)
DG_List ==
  /\ pc = "dg_list"
  /\ \E fs \in SUBSET FileNames : files' = fs
  /\ log' = Append(log, Ev("listing", 0))
  /\ pc' = "dg_find"
  /\ UNCHANGED <<inputs, backup_exists, attempts, tester, success, sqlite_path, analysis,
                 output, uncaught>>

(* analyze_chroma_database: the search for the storage file and the call   *)
(* of analyze_sqlite_structure (which reports its own failures)            *)
DG_FindSqlite ==
  /\ pc = "dg_find"
  /\ \E f \in FindChromaDb(files) :
       /\ sqlite_path' = f
       /\ log' = Append(log, Ev(IF f = NoFile THEN "no_db_file" ELSE "inspect", 0))
  /\ pc' = "dg_client"
  /\ UNCHANGED <<inputs, backup_exists, attempts, tester, success, files, analysis, output,
                 uncaught>>

(* analyze_chroma_database: the client connection test and the return      *)
DG_Client ==
  /\ pc = "dg_client"
  /\ \E outcome \in Outcomes :
       /\ log' = Append(log, Ev("client_test", 0))
       /\ success' = IF AttemptSucceeds(outcome) THEN "True" ELSE "False"
  /\ pc' = "dg_analyzed"
  /\ UNCHANGED <<inputs, backup_exists, attempts, tester, files, sqlite_path, analysis,
                 output, uncaught>>

(* main: if not success: test_database_migration, up to the backup copy;   *)
(* shutil.copytree of a directory that does not exist raises, outside any  *)
(* try                                                                     *)
DG_Backup ==
  /\ pc = "dg_analyzed"
  /\ IF success = "True"
     THEN /\ log' = Append(log, Ev("recommendations", 0))
          /\ pc' = "exit"
          /\ UNCHANGED <<backup_exists, uncaught>>
     ELSE IF backup_exists
     THEN /\ pc' = "dg_test"
          /\ UNCHANGED <<log, backup_exists, uncaught>>
     ELSE IF db_exists
     THEN /\ log' = Append(log, Ev("backup", 0))
          /\ backup_exists' = TRUE
          /\ pc' = "dg_test"
          /\ uncaught' = uncaught
     ELSE /\ log' = Append(log, Ev("backup", 0))
          /\ uncaught' = TRUE
          /\ pc' = "crashed"
          /\ backup_exists' = backup_exists
  /\ UNCHANGED <<inputs, attempts, tester, success, files, sqlite_path, analysis, output>>

(* test_database_migration: one turn of the loop, and the return False     *)
(* that follows the last one; then the recommendations of main             *)
DG_TryConfig ==
  /\ pc = "dg_test" /\ Len(attempts) < NumConfigs
  /\ \E outcome \in Outcomes :
       LET i == Len(attempts) + 1
       IN /\ attempts' = Append(attempts, outcome)
          /\ IF AttemptSucceeds(outcome)
             THEN /\ log' = log \o <<Ev("config_ok", i), Ev("recommendations", 0)>>
                  /\ tester' = "True"
                  /\ pc' = "exit"
             ELSE IF i = NumConfigs
             THEN /\ log' = log \o <<Ev("config_failed", i), Ev("recommendations", 0)>>
                  /\ tester' = "False"
                  /\ pc' = "exit"
             ELSE /\ log' = Append(log, Ev("config_failed", i))
                  /\ tester' = tester
                  /\ pc' = pc
  /\ UNCHANGED <<inputs, backup_exists, success, files, sqlite_path, analysis, output,
                 uncaught>>

Next ==
  \/ VA_Main
  \/ VA_TryApproach
  \/ VA_FindSqlite
  \/ VA_Query
  \/ VA_Row
  \/ VA_Return
  \/ VA_Generate
  \/ DG_Main
  \/ DG_List
  \/ DG_FindSqlite
  \/ DG_Client
  \/ DG_Backup
  \/ DG_TryConfig

Spec == Init /\ [][Next]_vars

(* ====================================================================== *)
(* Properties                                                              *)
(* ====================================================================== *)
InLog(e) == \E i \in 1..Len(log) : log[i] = e
HasTag(tag) == \E i \in 1..Len(log) : log[i][1] = tag

(* The blob is NULL or empty, or json.loads rejects it.                    *)
AbsentOrMalformed(blob) ==
  blob.isNull \/ blob.text = <<>> \/ ~Loads(blob.text).ok

(* The blob parses as a mapping.                                           *)
IsMapping(blob) ==
  /\ ~blob.isNull
  /\ blob.text # <<>>
  /\ Loads(blob.text).ok
  /\ Loads(blob.text).val.kind = "dict"

HasDiscriminator(blob) == IsMapping(blob) /\ HasKey(Loads(blob.text).val, KeyType)

(* The text is the JSON of the fixed default configuration: _type, an      *)
(* empty hnsw block and an empty embedding_function block, nothing else.   *)
IsFixedDefault(json) ==
  LET q == Loads(json)
  IN /\ q.ok
     /\ q.val.kind = "dict"
     /\ Len(q.val.val) = 3
     /\ q.val.val[1][1] = <<"_type">>
     /\ q.val.val[1][2].kind = "str"
     /\ q.val.val[1][2].val = <<"CollectionConfigurationInternal">>
     /\ q.val.val[2][1] = <<"hnsw">>
     /\ q.val.val[2][2].kind = "dict"
     /\ q.val.val[2][2].val = <<>>
     /\ q.val.val[3][1] = <<"embedding_function">>
     /\ q.val.val[3][2].kind = "dict"
     /\ q.val.val[3][2].val = <<>>

C2_OnlyDiscriminatorAdded ==
  \A k \in 1..Len(emitted) :
    LET blob == rows[queued[k]].blob
    IN (/\ IsMapping(blob)
        /\ HasKey(Loads(blob.text).val, KeyHnsw)
        /\ ~HasKey(Loads(blob.text).val, KeyType)) =>
         LET original == Loads(blob.text).val
             q == Loads(emitted[k].updated_json)
         IN /\ q.ok
            /\ q.val.kind = "dict"
            /\ Len(q.val.val) = Len(original.val) + 1
            /\ \A i \in 1..Len(original.val) : q.val.val[i] = original.val[i]
            /\ q.val.val[Len(q.val.val)][1] = <<"_type">>
            /\ q.val.val[Len(q.val.val)][2].kind = "str"
            /\ q.val.val[Len(q.val.val)][2].val = <<"CollectionConfigurationInternal">>
            /\ Classify(Text(FALSE, emitted[k].updated_json)) = "valid"
            /\ CorrectedConfig(QueuedConfig(q.val)) = q.val

C2_Witness ==
  /\ writes = 1
  /\ \E k \in 1..Len(emitted) : rows[queued[k]].blob.text = BlobEscapes
  /\ \E k \in 1..Len(emitted) : rows[queued[k]].blob.text = BlobHnswQuote

(* C3: a row whose blob is a mapping that contains _type is reported as    *)
(* valid when the loop handles it and is never put in problematic_configs, *)
(* so none of the generated UPDATE values belongs to it.                   *)
C3_ValidNeverQueued ==
  /\ \A r \in 1..idx :
       HasDiscriminator(rows[r].blob) =>
         /\ InLog(Ev("valid", r))
         /\ \A k \in 1..Len(queued) : queued[k] # r
  /\ Len(emitted) <= Len(queued)
  /\ \A k \in 1..Len(emitted) : emitted[k].collection_id = rows[queued[k]].id

C3_Witness ==
  /\ writes = 1
  /\ Len(rows) = 2
  /\ HasDiscriminator(rows[1].blob)
  /\ Len(emitted) = 1

(* The script as a SQL shell reads it.                                     *)
Toks == SqlTokens(script_file)
IsWord(i, w) == i \in 1..Len(Toks) /\ Toks[i].kind = "word" /\ Toks[i].text = <<w>>
WordAt(w) == {i \in 1..Len(Toks) : IsWord(i, w)}
StatementEnd(u) ==
  IF \E e \in WordAt(";") : e > u
  THEN CHOOSE e \in WordAt(";") : e > u /\ \A f \in WordAt(";") : f > u => e <= f
  ELSE 0

(* C4: a written script holds exactly one UPDATE statement per corrected   *)
(* record, the k-th of them ending in WHERE id = '<id of the k-th record>',*)
(* exactly one BEGIN TRANSACTION and one COMMIT with every UPDATE between  *)
(* them, and the verifying SELECT after the COMMIT.                        *)
C4_ScriptStructure ==
  writes > 0 =>
    /\ Cardinality(WordAt("UPDATE")) = Len(emitted)
    /\ Cardinality({i \in WordAt("BEGIN") : IsWord(i + 1, "TRANSACTION")}) = 1
    /\ Cardinality(WordAt("BEGIN")) = 1
    /\ Cardinality(WordAt("COMMIT")) = 1
    /\ \A u \in WordAt("UPDATE") :
         LET k == Cardinality({v \in WordAt("UPDATE") : v <= u})
             e == StatementEnd(u)
         IN /\ \A b \in WordAt("BEGIN") : b < u
            /\ \A c \in WordAt("COMMIT") : u < c
            /\ e > u + 4
            /\ IsWord(e - 4, "WHERE")
            /\ IsWord(e - 3, "id")
            /\ IsWord(e - 2, "=")
            /\ Toks[e - 1].kind = "lit"
            /\ Toks[e - 1].text = emitted[k].collection_id
            /\ \A v \in WordAt("UPDATE") : ~(u < v /\ v < e)
    /\ \E sel \in WordAt("SELECT") : \A c \in WordAt("COMMIT") : c < sel

(* The string literals of the script, in order.                            *)
Quoted == SelectSeq(Toks, LAMBDA t : t.kind \in {"lit", "open"})

(* C5: in a written script the string literals are, in order, the          *)
(* serialized JSON and the identifier of each corrected record, each       *)
(* closed by its own closing quote: no content ends a literal early or     *)
(* leaves one open.                                                        *)
C5_LiteralsClosedWhereIntended ==
  writes > 0 =>
    /\ Len(Quoted) = 2 * Len(emitted)
    /\ \A k \in 1..Len(emitted) :
         /\ 2 * k <= Len(Quoted)
         /\ Quoted[2 * k - 1].kind = "lit"
         /\ Quoted[2 * k - 1].text = emitted[k].updated_json
         /\ Quoted[2 * k].kind = "lit"
         /\ Quoted[2 * k].text = emitted[k].collection_id

(* The events of the tester loop, in the order they happened.              *)
OkTag == IF entry = "version_analysis" THEN "approach_ok" ELSE "config_ok"
FailTag == IF entry = "version_analysis" THEN "approach_failed" ELSE "config_failed"
AttemptEvents == SelectSeq(log, LAMBDA e : e[1] \in {OkTag, FailTag})
NumVariants == IF entry = "version_analysis" THEN NumApproaches ELSE NumConfigs

(* C6: in both tester loops the variants are attempted in list order, each *)
(* failed variant is reported and followed by the next, nothing is         *)
(* attempted after a variant whose open and list both succeeded, the loop  *)
(* returns success exactly when its last attempt succeeded, and failure    *)
(* exactly when every variant was attempted and failed.                    *)
C6_FirstSuccessWins ==
  /\ Len(attempts) <= NumVariants
  /\ Len(AttemptEvents) = Len(attempts)
  /\ \A i \in 1..Len(attempts) :
       AttemptEvents[i] = Ev(IF attempts[i] = "ok" THEN OkTag ELSE FailTag, i)
  /\ \A i \in 1..Len(attempts) : attempts[i] = "ok" => i = Len(attempts)
  /\ tester = "True" <=> (attempts # <<>> /\ attempts[Len(attempts)] = "ok")
  /\ tester = "False" <=>
       (Len(attempts) = NumVariants /\ \A i \in 1..Len(attempts) : attempts[i] # "ok")

C6_Witness ==
  /\ tester = "True"
  /\ attempts = <<"ok">>
  /\ pc \in {"va_tested", "exit"}

(* What a run does after the check of the path.                            *)
LaterSteps ==
  {"listing", "inspect", "no_db_file", "client_test", "backup", "approach_ok",
   "approach_failed", "config_ok", "config_failed", "no_sqlite_file", "read_error",
   "script_written"}

(* C7: when the path does not exist, either entry point reports it, runs   *)
(* none of the later steps and lets no exception escape.                   *)
C7_PathNotFoundReturnsEarly ==
  (argv /\ ~db_exists) =>
    /\ ~uncaught
    /\ \A i \in 1..Len(log) : log[i][1] \notin LaterSteps
    /\ pc # "main" => InLog(Ev("path_not_found", 0))

Classes == {"valid", "missing_type", "invalid_json", "no_config"}

(* C8: once the rows were read, the analysis ends with every row           *)
(* classified exactly once and every row that is not valid queued for      *)
(* repair in the list it returns, whatever the other rows hold.            *)
C8_EveryRowClassified ==
  (/\ entry = "version_analysis"
   /\ pc \in {"va_analyzed", "exit", "crashed"}
   /\ sqlite_path # NoFile
   /\ ~InLog(Ev("read_error", 0))) =>
    /\ returned.kind = "list"
    /\ \A r \in 1..Len(rows) :
         /\ Cardinality({i \in 1..Len(log) : log[i][1] \in Classes /\ log[i][2] = r}) = 1
         /\ ~InLog(Ev("valid", r)) =>
              \E k \in 1..Len(returned.list) : queued[k] = r

(* The directory holds none of the candidate names and no *.sqlite3 file.  *)
NoStorageFile(fs) ==
  /\ fs \cap {"chroma.sqlite3", "chroma.db", "database.db"} = {}
  /\ \A f \in fs : f \notin {"index.sqlite3", "old.sqlite3"}

(* C9: in the diagnostic, with an existing directory that holds no         *)
(* recognized storage file, the listing comes first, then the report that  *)
(* no database file was found, the inspection of the storage file is never *)
(* called, and the client connection test follows.                         *)
C9_NoStorageFileSkipsInspection ==
  (/\ entry = "diagnostic"
   /\ pc \in {"dg_client", "dg_analyzed", "dg_test", "exit", "crashed"}
   /\ argv /\ db_exists
   /\ NoStorageFile(files)) =>
    /\ Len(log) >= 2
    /\ log[1] = Ev("listing", 0)
    /\ log[2] = Ev("no_db_file", 0)
    /\ ~HasTag("inspect")
    /\ sqlite_path = NoFile
    /\ pc # "dg_client" => (Len(log) >= 3 /\ log[3] = Ev("client_test", 0))

C9_Witness ==
  /\ entry = "diagnostic"
  /\ pc = "exit"
  /\ db_exists
  /\ files = {"chroma_data.sqlite", "notes.txt"}
  /\ InLog(Ev("client_test", 0))

(* C10: chroma_migration.sql is written at most once, and only by the      *)
(* version analysis when the path exists, every connection variant failed, *)
(* the storage file was found and read without error and at least one row  *)
(* was classified as problematic.                                          *)
C10_ScriptWrittenOnlyAfterFailedAnalysis ==
  /\ writes <= 1
  /\ writes = 0 => (script_file = <<>> /\ ~HasTag("script_written"))
  /\ writes = 1 =>
       /\ entry = "version_analysis"
       /\ argv /\ db_exists
       /\ tester = "False"
       /\ Len(attempts) = NumApproaches
       /\ \A i \in 1..Len(attempts) : attempts[i] # "ok"
       /\ sqlite_path # NoFile
       /\ ~HasTag("read_error")
       /\ returned.kind = "list"
       /\ \E r \in 1..Len(rows) :
            \E c \in {"missing_type", "invalid_json", "no_config"} : InLog(Ev(c, r))

C10_Witness ==
  /\ writes = 1
  /\ pc = "exit"
  /\ HasTag("script_written")
====
